---- MODULE Spec2Model ----
(***************************************************************************)
(* Model of the upload handlers of the Tubely file-storage service:        *)
(*   handlerUploadVideo, getVideoAspectRatio, processVideoForFastStart,    *)
(*   generatePresignedURL, dbVideoToSignedVideo   (video upload handler)   *)
(*   handlerUploadThumbnail, getExtensionFromHeader (thumbnail handler)    *)
(*                                                                         *)
(* The model follows the later of the two revisions of the video handler   *)
(* that src/unnamed/part_000 holds (lines 184-414).  The result of         *)
(* http.MaxBytesReader is discarded by the handler and has no effect.      *)
(*                                                                         *)
(* Strings are sequences of atoms.  An atom is a one-character string or   *)
(* a chunk of characters that contains none of the characters the code     *)
(* splits or compares on (',' '/' ';' '=' ' ' and letter case), so that    *)
(* strings.Split, strings.Cut, strings.ToLower and strings.TrimSpace are   *)
(* computed on the sequence as the code computes them on the string.       *)
(***************************************************************************)
EXTENDS Integers, Sequences, FiniteSets, TLC

(***************************************************************************)
(* IEEE-754 binary64 arithmetic, as far as getVideoAspectRatio uses it:    *)
(* division of two non-negative integers, subtraction, absolute value and  *)
(* the comparison <.  A finite non-zero value is sign, exponent e and a    *)
(* 53-bit significand m (m[1] = 1, most significant bit first); its        *)
(* magnitude is the sum of m[i] * 2^(e + 1 - i).                           *)
(***************************************************************************)
Precision == 53

FZero == [k |-> "zero"]
FInf == [k |-> "inf"]
FNaN == [k |-> "nan"]

RECURSIVE Pow2(_)
Pow2(n) == IF n = 0 THEN 1 ELSE 2 * Pow2(n - 1)

Zeros(n) == [i \in 1..n |-> 0]

\* Largest k with h * 2^k <= w   (w >= h > 0).
RECURSIVE ShiftUp(_, _, _)
ShiftUp(w, h, k) == IF h * Pow2(k + 1) <= w THEN ShiftUp(w, h, k + 1) ELSE k

\* Smallest k with w * 2^k >= h   (0 < w < h).
RECURSIVE ShiftDown(_, _, _)
ShiftDown(w, h, k) == IF w * Pow2(k) >= h THEN k ELSE ShiftDown(w, h, k + 1)

\* The four bits of q (0 <= q < 16), most significant first.
Nibble(q) == <<(q \div 8) % 2, (q \div 4) % 2, (q \div 2) % 2, q % 2>>

\* 4 * n further quotient bits of rem/den (rem < den), and the remainder left.
RECURSIVE LongDiv(_, _, _)
LongDiv(rem, den, n) ==
    IF n = 0 THEN [bits |-> <<>>, rem |-> rem]
    ELSE LET r16 == 16 * rem
             rest == LongDiv(r16 % den, den, n - 1)
         IN  [bits |-> Nibble(r16 \div den) \o rest.bits, rem |-> rest.rem]

\* bits + 1, as a bit sequence of the same length (wraps to all zeros).
IncBits(bits) ==
    LET zero == {i \in 1..Len(bits) : bits[i] = 0}
        z == IF zero = {} THEN 0 ELSE CHOOSE i \in zero : \A j \in zero : j <= i
    IN  [i \in 1..Len(bits) |-> IF i < z THEN bits[i] ELSE IF i = z THEN 1 ELSE 0]

\* Round to nearest, ties to even: m is the 53-bit truncation, cmp the
\* comparison of the discarded part with half a unit in the last place.
RoundNearestEven(neg, e, m, cmp) ==
    LET up == cmp = "above" \/ (cmp = "half" /\ m[Precision] = 1)
        inc == IncBits(m)
    IN  IF ~up THEN [k |-> "num", neg |-> neg, e |-> e, m |-> m]
        ELSE IF inc[1] = 0
             THEN [k |-> "num", neg |-> neg, e |-> e + 1,
                   m |-> <<1>> \o Zeros(Precision - 1)]
             ELSE [k |-> "num", neg |-> neg, e |-> e, m |-> inc]

\* float64(w) / float64(h) for integers w, h >= 0.
FDiv(w, h) ==
    IF h = 0 THEN (IF w = 0 THEN FNaN ELSE FInf)
    ELSE IF w = 0 THEN FZero
    ELSE LET up == w >= h
             k == IF up THEN ShiftUp(w, h, 0) ELSE ShiftDown(w, h, 0)
             num == IF up THEN w ELSE w * Pow2(k)
             den == IF up THEN h * Pow2(k) ELSE h
             q == LongDiv(num - den, den, (Precision - 1) \div 4)
             cmp == IF 2 * q.rem > den THEN "above"
                    ELSE IF 2 * q.rem = den /\ q.rem > 0 THEN "half"
                    ELSE "below"
         IN  RoundNearestEven(FALSE, IF up THEN k ELSE 0 - k, <<1>> \o q.bits, cmp)

\* X >= Y for bit sequences of equal length.
GeBits(X, Y) ==
    LET diff == {i \in 1..Len(X) : X[i] # Y[i]}
    IN  diff = {} \/ X[CHOOSE i \in diff : \A j \in diff : i <= j] = 1

\* The borrow into bit i of X - Y: the bits below i of X are less than Y's.
Borrow(X, Y, i) ==
    LET diff == {j \in (i + 1)..Len(X) : X[j] # Y[j]}
    IN  IF diff # {} /\ Y[CHOOSE j \in diff : \A l \in diff : j <= l] = 1
        THEN 1 ELSE 0

\* X - Y for bit sequences of equal length, X >= Y.
SubBits(X, Y) ==
    [i \in 1..Len(X) |-> (X[i] - Y[i] - Borrow(X, Y, i)) % 2]

\* Magnitude comparison of two finite non-zero values.
MagGe(a, b) == a.e > b.e \/ (a.e = b.e /\ GeBits(a.m, b.m))

\* |x| - |y| for finite non-zero x, y with |x| >= |y|, rounded, with sign neg.
MagSub(x, y, neg) ==
    LET d == x.e - y.e
        L == Precision + d
        X == x.m \o Zeros(d)
        Y == Zeros(d) \o y.m
        D == SubBits(X, Y)
        ones == {i \in 1..L : D[i] = 1}
    IN  IF ones = {} THEN FZero
        ELSE LET p == CHOOSE i \in ones : \A j \in ones : i <= j
                 ext == D \o Zeros(Precision + 1)
                 m == SubSeq(ext, p, p + Precision - 1)
                 guard == ext[p + Precision]
                 sticky == \E i \in (p + Precision + 1)..L : D[i] = 1
                 cmp == IF guard = 1 /\ sticky THEN "above"
                        ELSE IF guard = 1 THEN "half"
                        ELSE "below"
             IN  RoundNearestEven(neg, x.e + 1 - p, m, cmp)

\* a - b for a >= 0 (any kind) and b finite, positive.
FSub(a, b) ==
    CASE a.k = "nan" -> FNaN
      [] a.k = "inf" -> FInf
      [] a.k = "zero" -> [b EXCEPT !.neg = TRUE]
      [] OTHER -> IF MagGe(a, b) THEN MagSub(a, b, FALSE) ELSE MagSub(b, a, TRUE)

\* math.Abs
FAbs(a) == IF a.k = "num" THEN [a EXCEPT !.neg = FALSE] ELSE a

\* a < b for a >= 0 (any kind) and b finite, positive.
FLt(a, b) ==
    CASE a.k = "nan" -> FALSE
      [] a.k = "inf" -> FALSE
      [] a.k = "zero" -> TRUE
      [] OTHER -> ~MagGe(a, b)

(***************************************************************************)
(* getVideoAspectRatio: the classification of the first stream.            *)
(***************************************************************************)
tolerance == FDiv(1, 10)
landscapeRatio == FDiv(16, 9)
portraitRatio == FDiv(9, 16)

\* The classification for a non-empty stream list, first stream w x h.
ClassifyRatio(w, h) ==
    LET aspectRatio == FDiv(w, h)
    IN  IF FLt(FAbs(FSub(aspectRatio, landscapeRatio)), tolerance)
        THEN <<"landscape">>
        ELSE IF FLt(FAbs(FSub(aspectRatio, portraitRatio)), tolerance)
             THEN <<"portrait">>
             ELSE <<"other">>

\* probe: [out |-> "runerr" | "jsonerr" | "ok", streams |-> Seq of <<w, h>>]
getVideoAspectRatio(probe) ==
    IF probe.out # "ok" THEN [aspectRatio |-> <<>>, err |-> TRUE]
    ELSE IF Len(probe.streams) = 0 THEN [aspectRatio |-> <<>>, err |-> FALSE]
    ELSE [aspectRatio |-> ClassifyRatio(probe.streams[1][1], probe.streams[1][2]),
          err |-> FALSE]

(***************************************************************************)
(* Strings (package strings), on sequences of atoms.                       *)
(***************************************************************************)
Min(S) == CHOOSE i \in S : \A j \in S : i <= j

\* strings.Index: the first position of atom c in s, 0 when absent.
Index(s, c) ==
    LET at == {i \in 1..Len(s) : s[i] = c}
    IN  IF at = {} THEN 0 ELSE Min(at)

\* strings.Split(s, sep) for a one-character sep: one part more than there
\* are separators.
Split(s, sep) ==
    LET at == {i \in 1..Len(s) : s[i] = sep}
        n == Cardinality(at)
        Pos(k) == IF k = 0 THEN 0
                  ELSE IF k = n + 1 THEN Len(s) + 1
                  ELSE CHOOSE i \in at : Cardinality({j \in at : j < i}) = k - 1
    IN  [k \in 1..(n + 1) |-> SubSeq(s, Pos(k - 1) + 1, Pos(k) - 1)]

\* strings.SplitN(s, sep, 2): cut at the first separator only.
SplitN2(s, sep) ==
    LET i == Index(s, sep)
    IN  IF i = 0 THEN <<s>>
        ELSE <<SubSeq(s, 1, i - 1), SubSeq(s, i + 1, Len(s))>>

\* strings.TrimLeftFunc(s, unicode.IsSpace)
TrimLeft(s) ==
    LET ns == {i \in 1..Len(s) : s[i] # " "}
    IN  IF ns = {} THEN <<>> ELSE SubSeq(s, Min(ns), Len(s))

\* strings.TrimSpace
TrimSpace(s) ==
    LET ns == {i \in 1..Len(s) : s[i] # " "}
    IN  IF ns = {} THEN <<>>
        ELSE SubSeq(s, Min(ns), CHOOSE i \in ns : \A j \in ns : j <= i)

UpperCase == <<"A", "B", "C", "D", "E", "F", "G", "H", "I", "J", "K", "L", "M",
               "N", "O", "P", "Q", "R", "S", "T", "U", "V", "W", "X", "Y", "Z">>
LowerCase == <<"a", "b", "c", "d", "e", "f", "g", "h", "i", "j", "k", "l", "m",
               "n", "o", "p", "q", "r", "s", "t", "u", "v", "w", "x", "y", "z">>

\* strings.ToLower
ToLower(s) ==
    [i \in 1..Len(s) |->
        IF \E u \in 1..26 : UpperCase[u] = s[i]
        THEN LowerCase[CHOOSE u \in 1..26 : UpperCase[u] = s[i]]
        ELSE s[i]]

(***************************************************************************)
(* mime.ParseMediaType (package mime of the Go standard library), which    *)
(* both handlers apply to the part's Content-Type header.  Headers are     *)
(* sequences of one-character atoms over printable ASCII without '"',      *)
(* '\' and '*' (no quoted values, no RFC 2231 continuations).              *)
(***************************************************************************)
TSpecials == {"(", ")", "<", ">", "@", ",", ";", ":", "\\", "\"", "/", "[", "]",
              "?", "="}

isTokenChar(c) == c # " " /\ c \notin TSpecials

\* consumeToken: the longest prefix of token characters, and the rest.
consumeToken(v) ==
    LET nt == {i \in 1..Len(v) : ~isTokenChar(v[i])}
        n == IF nt = {} THEN Len(v) + 1 ELSE Min(nt)
    IN  [token |-> SubSeq(v, 1, n - 1), rest |-> SubSeq(v, n, Len(v))]

\* checkMediaTypeDisposition: TRUE when it returns an error.
checkMediaTypeDisposition(s) ==
    LET t == consumeToken(s)
        sub == consumeToken(SubSeq(t.rest, 2, Len(t.rest)))
    IN  IF t.token = <<>> THEN TRUE
        ELSE IF t.rest = <<>> THEN FALSE
        ELSE IF t.rest[1] # "/" THEN TRUE
        ELSE IF sub.token = <<>> THEN TRUE
        ELSE sub.rest # <<>>

\* consumeMediaParam: one "; key=value"; param = <<>> when there is none.
consumeMediaParam(v) ==
    LET none == [param |-> <<>>, rest |-> v]
        r1 == TrimLeft(v)
        r2 == TrimLeft(SubSeq(r1, 2, Len(r1)))
        key == consumeToken(r2)
        r3 == TrimLeft(key.rest)
        r4 == TrimLeft(SubSeq(r3, 2, Len(r3)))
        val == consumeToken(r4)
    IN  IF r1 = <<>> \/ r1[1] # ";" THEN none
        ELSE IF key.token = <<>> THEN none
        ELSE IF r3 = <<>> \/ r3[1] # "=" THEN none
        ELSE IF val.token = <<>> THEN none
        ELSE [param |-> ToLower(key.token), rest |-> val.rest]

\* The parameter loop: "ok", "invalid" (ErrInvalidMediaParameter) or
\* "duplicate" (duplicate parameter name).
RECURSIVE ParseParams(_, _)
ParseParams(v0, seen) ==
    LET v == TrimLeft(v0)
        p == consumeMediaParam(v)
    IN  IF v = <<>> THEN "ok"
        ELSE IF p.param = <<>>
             THEN (IF TrimSpace(p.rest) = <<";">> THEN "ok" ELSE "invalid")
             ELSE IF p.param \in seen THEN "duplicate"
                  ELSE ParseParams(p.rest, seen \cup {p.param})

\* mime.ParseMediaType(v): the media type returned and whether err # nil.
ParseMediaType(v) ==
    LET semi == Index(v, ";")
        base == IF semi = 0 THEN v ELSE SubSeq(v, 1, semi - 1)
        mediatype == TrimSpace(ToLower(base))
        params == ParseParams(SubSeq(v, Len(base) + 1, Len(v)), {})
    IN  IF checkMediaTypeDisposition(mediatype)
        THEN [mediaType |-> <<>>, err |-> TRUE]
        ELSE IF params = "invalid" THEN [mediaType |-> mediatype, err |-> TRUE]
        ELSE IF params = "duplicate" THEN [mediaType |-> <<>>, err |-> TRUE]
        ELSE [mediaType |-> mediatype, err |-> FALSE]

videoMp4 == <<"v", "i", "d", "e", "o", "/", "m", "p", "4">>
imageJpeg == <<"i", "m", "a", "g", "e", "/", "j", "p", "e", "g">>
imagePng == <<"i", "m", "a", "g", "e", "/", "p", "n", "g">>

\* The test with && for ||: a header is refused only when it both parses to
\* another media type and fails to parse.
RejectsContentType_And(header) ==
    LET p == ParseMediaType(header)
    IN  p.mediaType # videoMp4 /\ p.err

\* handlerUploadVideo's test of the declared content type: TRUE = reject.
RejectsContentType(header) ==
    LET p == ParseMediaType(header)
    IN  p.mediaType # videoMp4 \/ p.err

\* getExtensionFromHeader: the extension, or err.
getExtensionFromHeader(header) ==
    LET p == ParseMediaType(header)
    IN  IF (p.mediaType # imageJpeg /\ p.mediaType # imagePng) \/ p.err
        THEN [extension |-> <<>>, err |-> TRUE]
        ELSE [extension |-> SplitN2(p.mediaType, "/")[2], err |-> FALSE]

(***************************************************************************)
(* The collaborators: record store, auth, object store, file system.       *)
(***************************************************************************)
NumReq == 2
MaxWidth == 151
MaxHeight == 90

Reqs == 1..NumReq
VideoIDs == {"v1", "v2"}
\* The users who send requests; "u2" owns a record and sends none.
Users == {"u1"}
Owner == [v \in VideoIDs |-> IF v = "v1" THEN "u1" ELSE "u2"]

\* r.PathValue("videoID"): a stored record, a UUID of no record, no UUID.
PathValues == VideoIDs \cup {"v9", "not-a-uuid"}
\* The Authorization header: none, a token that fails validation, a user's.
Tokens == {"none", "forged"} \cup Users
\* cfg.s3Bucket
Buckets == {<<"tubely">>, <<"tubely", ",", "eu">>}

\* *string: nil, or a pointer to a string.
Nil == <<>>
Ptr(str) == <<str>>

\* database.Video, with the embedded database.CreateVideoParams.
NewVideo(id, owner) ==
    [ID |-> id, CreatedAt |-> "created", UpdatedAt |-> "updated",
     ThumbnailURL |-> Nil, VideoURL |-> Nil,
     CreateVideoParams |-> [Title |-> "title", Description |-> "description",
                            UserID |-> owner]]

\* database.Video{}
ZeroVideo ==
    [ID |-> "", CreatedAt |-> "", UpdatedAt |-> "",
     ThumbnailURL |-> Nil, VideoURL |-> Nil,
     CreateVideoParams |-> [Title |-> "", Description |-> "", UserID |-> ""]]

InitDB == [v \in VideoIDs |-> NewVideo(v, Owner[v])]

uuidParse(str) == [id |-> str, err |-> str = "not-a-uuid"]
GetBearerToken(token) == [token |-> token, err |-> token = "none"]
ValidateJWT(token) == [userID |-> token, err |-> token \notin Users]

GetVideo(store, id) ==
    IF id \in DOMAIN store THEN [video |-> store[id], err |-> FALSE]
    ELSE [video |-> ZeroVideo, err |-> TRUE]

\* Full-record replace.
UpdateVideo(store, video) == [store EXCEPT ![video.ID] = video]

\* The outputs ffprobe can give: a failed run, output that is no JSON of the
\* expected shape, an empty stream list, a first stream of w x h.
ProbeDims == {<<1920, 1080>>, <<1080, 1920>>, <<1000, 1000>>}
ProbeOutputs ==
    {[out |-> "runerr", streams |-> <<>>], [out |-> "jsonerr", streams |-> <<>>],
     [out |-> "ok", streams |-> <<>>]}
        \cup {[out |-> "ok", streams |-> <<d>>] : d \in ProbeDims}

\* getVideoAspectRatio on each of these outputs.
ProbeResults == [p \in ProbeOutputs |-> getVideoAspectRatio(p)]

\* The Content-Type headers a video part is uploaded with.
VideoHeaders ==
    {videoMp4,
     <<"V", "i", "d", "e", "o", "/", "M", "P", "4">>,
     videoMp4 \o <<";", " ", "a", "=", "b">>,
     videoMp4 \o <<";", " ", "=", "b">>,
     videoMp4 \o <<" ", "x">>,
     <<"v", "i", "d", "e", "o">>,
     imagePng,
     <<>>}

\* The Content-Type headers a thumbnail part is uploaded with.
ThumbnailHeaders ==
    {imagePng, imageJpeg,
     <<"I", "M", "A", "G", "E", "/", "P", "N", "G">>,
     <<"i", "m", "a", "g", "e", "/", "g", "i", "f">>,
     <<>>}

\* base64.RawURLEncoding of 32 bytes of crypto/rand: no two requests draw
\* the same identifier.
randomIDString(r) == "id" \o ToString(r)

\* os.CreateTemp("", "tubely-upload.mp4"): a name no other request gets.
TempName(r) == <<"/tmp/tubely-upload.mp4", ToString(r)>>

VARIABLES
    s3Bucket,   \* cfg.s3Bucket
    db,         \* cfg.db: the video records
    s3,         \* the object store: the <<bucket, key>> pairs that hold an object
    fs,         \* the names of the files that exist on disk
    req,        \* per request: its position, locals, log and responses
    putFailed,  \* history: the keys whose PutObject failed
    probe,      \* classifier specification: the probe output
    classified  \* classifier specification: the classifier's result

vars == <<s3Bucket, db, s3, fs, req, putFailed, probe, classified>>

\* The events a request logs that touch the uploaded body or a file.
FileIO == {"ParseMultipartForm", "FormFile", "os.CreateTemp", "io.Copy",
           "ffprobe", "ffmpeg", "os.Open", "os.Create"}

NewFrame ==
    [pc |-> "idle", kind |-> "none", videoID |-> "", userID |-> "",
     header |-> Nil, mediaTypeOK |-> FALSE, videoMetadata |-> ZeroVideo,
     fetched |-> FALSE, tempFile |-> <<>>, fastStartFile |-> <<>>,
     aspectRatio |-> <<>>, key |-> <<>>, url |-> <<>>, video |-> ZeroVideo,
     defers |-> <<>>, log |-> <<>>, resp |-> <<>>,
     putErr |-> FALSE, wrote |-> FALSE, alone |-> TRUE,
     dbStart |-> InitDB, dbEnd |-> InitDB]

InFlight(q) == req[q].pc \notin {"idle", "done"}

\* Request r is the r-th request to arrive.
NextToArrive(r) == req[r].pc = "idle" /\ \A q \in 1..(r - 1) : req[q].pc # "idle"

Log(L, event) == [L EXCEPT !.log = Append(@, event)]

respondWithError(L, code) ==
    [L EXCEPT !.resp = Append(@, [code |-> code, body |-> ZeroVideo]),
              !.log = Append(@, "respond")]

respondWithJSON(L, code, payload) ==
    [L EXCEPT !.resp = Append(@, [code |-> code, body |-> payload]),
              !.log = Append(@, "respond")]

Defer(L, op, file) == [L EXCEPT !.defers = Append(@, [op |-> op, file |-> file])]

\* The deferred calls run when the handler returns (last in, first out): the
\* files named by a deferred os.Remove are gone.
RunDefers(files, defers) ==
    files \ {defers[i].file : i \in {j \in 1..Len(defers) : defers[j].op = "os.Remove"}}

\* Request r goes on from frame L; the requests in flight have interleaved.
Continue(r, L, files, store) ==
    /\ req' = [q \in Reqs |->
                 IF q = r
                 THEN [L EXCEPT !.alone = @ /\ \A o \in Reqs \ {r} : ~InFlight(o)]
                 ELSE IF InFlight(q) THEN [req[q] EXCEPT !.alone = FALSE]
                 ELSE req[q]]
    /\ fs' = files
    /\ db' = store

\* The handler of request r returns.
Return(r, L, files, store) ==
    Continue(r, [L EXCEPT !.pc = "done", !.defers = <<>>, !.dbEnd = store],
             RunDefers(files, L.defers), store)

(***************************************************************************)
(* The video upload handler's helpers.                                      *)
(***************************************************************************)
\* outcome: ffmpeg exits zero with the output written ("ok"), or non-zero
\* having written none ("fail") or part ("partial") of the output file.
processVideoForFastStart(filePath, outcome) ==
    LET outputFilePath == filePath \o <<".processing">>
    IN  [outputFilePath |-> IF outcome = "ok" THEN outputFilePath ELSE <<>>,
         err |-> outcome # "ok",
         written |-> IF outcome = "fail" THEN {} ELSE {outputFilePath}]

\* presignOK: whether PresignGetObject succeeds.
generatePresignedURL(bucket, key, presignOK) ==
    IF ~presignOK THEN [url |-> <<>>, err |-> TRUE]
    ELSE [url |-> <<"https://">> \o bucket \o <<".s3/">> \o key
                      \o <<"?X-Amz-Signature">>,
          err |-> FALSE]

dbVideoToSignedVideo(video, presignOK) ==
    IF video.VideoURL = Nil THEN [video |-> video, err |-> FALSE]
    ELSE LET parts == Split(video.VideoURL[1], ",")
         IN  IF Len(parts) # 2 THEN [video |-> ZeroVideo, err |-> TRUE]
             ELSE LET signed == generatePresignedURL(parts[1], parts[2], presignOK)
                  IN  IF signed.err THEN [video |-> ZeroVideo, err |-> TRUE]
                      ELSE [video |-> [video EXCEPT !.VideoURL = Ptr(signed.url)],
                            err |-> FALSE]

\* key := fmt.Sprintf("%s/%s.mp4", aspectRatio, randomIDString)
VideoKey(aspectRatio, randomID) == aspectRatio \o <<"/", randomID, ".mp4">>

\* The object's public URL stored in place of the "bucket,key" locator.
VideoLocator_URL(bucket, key) ==
    <<"https://">> \o bucket \o <<".s3.amazonaws.com/">> \o key

\* videoURL := fmt.Sprintf("%s,%s", cfg.s3Bucket, key)
VideoLocator(bucket, key) == bucket \o <<",">> \o key

\* updatedVid := database.Video{...} of handlerUploadVideo
VideoRecord(videoMetadata, videoURL) ==
    [ID |-> videoMetadata.ID,
     CreatedAt |-> videoMetadata.CreatedAt,
     UpdatedAt |-> videoMetadata.UpdatedAt,
     ThumbnailURL |-> videoMetadata.ThumbnailURL,
     VideoURL |-> Ptr(videoURL),
     CreateVideoParams |-> videoMetadata.CreateVideoParams]

(***************************************************************************)
(* handlerUploadVideo of request r, in the order of the code; a step is    *)
(* defined after the steps that follow it.  The handler runs from its      *)
(* start to the PutObject call (UploadVideoStart), then the PutObject call *)
(* and the record it builds (UploadVideoPut), then UpdateVideo, signing    *)
(* and the response (UploadVideoPersist).                                  *)
(***************************************************************************)
\* os.Open of the remuxed file, and the two deferred calls.
UploadVideo_Open(r, L, files, fastStartFileName) ==
    \E openOK \in BOOLEAN :
        LET L1 == Log(L, "os.Open")
        IN  IF ~openOK
            THEN Return(r, respondWithError(L1, "StatusInternalServerError"),
                        files, db)
            ELSE Continue(r,
                    Defer(Defer([L1 EXCEPT !.fastStartFile = fastStartFileName,
                                           !.pc = "put"],
                                "os.Remove", fastStartFileName),
                          "Close", fastStartFileName),
                    files, db)

\* processVideoForFastStart(tempFile.Name())
UploadVideo_Remux(r, L, files) ==
    \E outcome \in {"ok", "fail", "partial"} :
        LET res == processVideoForFastStart(L.tempFile, outcome)
            L1 == Log(L, "ffmpeg")
        IN  IF res.err
            THEN Return(r, respondWithError(L1, "StatusInternalServerError"),
                        files \cup res.written, db)
            ELSE UploadVideo_Open(r, L1, files \cup res.written, res.outputFilePath)

\* getVideoAspectRatio(tempFile.Name()) and the key.
UploadVideo_Classify(r, L, files) ==
    \E p \in ProbeOutputs :
        LET res == ProbeResults[p]
            L1 == Log(L, "ffprobe")
        IN  IF res.err
            THEN Return(r, respondWithError(L1, "StatusInternalServerError"),
                        files, db)
            ELSE UploadVideo_Remux(r,
                    [L1 EXCEPT !.aspectRatio = res.aspectRatio,
                               !.key = VideoKey(res.aspectRatio, randomIDString(r))],
                    files)

\* os.CreateTemp, the two deferred calls, io.Copy and Seek.
UploadVideo_Buffer(r, L, files) ==
    \E createOK \in BOOLEAN :
        LET L1 == Log(L, "os.CreateTemp")
        IN  IF ~createOK
            THEN Return(r, respondWithError(L1, "StatusInternalServerError"),
                        files, db)
            ELSE UploadVideo_Classify(r,
                    Log(Defer(Defer([L1 EXCEPT !.tempFile = TempName(r)],
                                    "os.Remove", TempName(r)),
                              "Close", TempName(r)),
                        "io.Copy"),
                    files \cup {TempName(r)})

\* r.FormFile("video") and the test of the declared content type.
UploadVideo_Ingest(r, L, files) ==
    \E formOK \in BOOLEAN :
        LET L1 == Log(L, "FormFile")
        IN  IF ~formOK
            THEN Return(r, respondWithError(L1, "StatusInternalServerError"),
                        files, db)
            ELSE \E header \in VideoHeaders :
                    LET L2 == Defer([L1 EXCEPT !.header = Ptr(header)], "Close", <<"videoFile">>)
                    IN  IF RejectsContentType(header)
                        THEN Return(r, respondWithError(L2, "StatusBadRequest"),
                                    files, db)
                        ELSE UploadVideo_Buffer(r, [L2 EXCEPT !.mediaTypeOK = TRUE],
                                                files)

\* cfg.db.GetVideo(videoID) and the owner test.
UploadVideo_Authorize(r, L, files) ==
    LET got == GetVideo(db, L.videoID)
        L1 == [L EXCEPT !.videoMetadata = got.video, !.fetched = ~got.err]
    IN  IF got.err
        THEN Return(r, respondWithError(L1, "StatusNotFound"), files, db)
        ELSE IF got.video.CreateVideoParams.UserID # L.userID
             THEN Return(r, respondWithError(L1, "StatusUnauthorized"), files, db)
             ELSE UploadVideo_Ingest(r, L1, files)

\* uuid.Parse, auth.GetBearerToken, auth.ValidateJWT.
UploadVideo_Identify(r, L, files) ==
    \E videoIDString \in PathValues, bearer \in Tokens :
        LET videoID == uuidParse(videoIDString)
            token == GetBearerToken(bearer)
            userID == ValidateJWT(token.token)
        IN  IF videoID.err
            THEN Return(r, respondWithError(L, "StatusBadRequest"), files, db)
            ELSE IF token.err
            THEN Return(r, respondWithError(L, "StatusUnauthorized"), files, db)
            ELSE IF userID.err
            THEN Return(r, respondWithError(L, "StatusUnauthorized"), files, db)
            ELSE UploadVideo_Authorize(r,
                    [L EXCEPT !.videoID = videoID.id, !.userID = userID.userID],
                    files)

UploadVideoStart(r) ==
    /\ NextToArrive(r)
    /\ UploadVideo_Identify(r, [NewFrame EXCEPT !.kind = "video", !.dbStart = db], fs)
    /\ UNCHANGED <<s3Bucket, s3, putFailed, probe, classified>>

\* cfg.s3Client.PutObject and its error branch, which does not return; then
\* videoURL and updatedVid.
UploadVideoPut(r) ==
    /\ req[r].kind = "video"
    /\ req[r].pc = "put"
    /\ \E putOK \in BOOLEAN :
        LET L == Log(req[r], "PutObject")
            L1 == IF putOK THEN L
                  ELSE [respondWithError(L, "StatusInternalServerError")
                            EXCEPT !.putErr = TRUE]
            videoURL == VideoLocator(s3Bucket, L.key)
        IN  /\ s3' = IF putOK THEN s3 \cup {<<s3Bucket, L.key>>} ELSE s3
            /\ putFailed' = IF putOK THEN putFailed ELSE putFailed \cup {L.key}
            /\ Continue(r, [L1 EXCEPT !.url = videoURL,
                                      !.video = VideoRecord(L.videoMetadata, videoURL),
                                      !.pc = "update"],
                        fs, db)
    /\ UNCHANGED <<s3Bucket, probe, classified>>

\* cfg.db.UpdateVideo(updatedVid), cfg.dbVideoToSignedVideo(updatedVid) and
\* the response.
UploadVideoPersist(r) ==
    /\ req[r].kind = "video"
    /\ req[r].pc = "update"
    /\ \E updateOK \in BOOLEAN, presignOK \in BOOLEAN :
        LET L == Log(req[r], "UpdateVideo")
            signed == dbVideoToSignedVideo(L.video, presignOK)
        IN  IF ~updateOK
            THEN Return(r, respondWithError(L, "StatusInternalServerError"), fs, db)
            ELSE LET L1 == [L EXCEPT !.wrote = TRUE]
                     store == UpdateVideo(db, L.video)
                 IN  IF signed.err
                     THEN Return(r, respondWithError(L1, "StatusInternalServerError"),
                                 fs, store)
                     ELSE Return(r, respondWithJSON(L1, "StatusOK", signed.video),
                                 fs, store)
    /\ UNCHANGED <<s3Bucket, s3, putFailed, probe, classified>>

(***************************************************************************)
(* handlerUploadThumbnail of request r: from its start to the UpdateVideo  *)
(* call (UploadThumbnailStart), then UpdateVideo and the response          *)
(* (UploadThumbnailPersist).                                               *)
(***************************************************************************)
\* The record built without the VideoURL field of the copy that was read.
ThumbnailRecord_NoVideoURL(videoID, videoMetadata, thumbnailUrl) ==
    [ID |-> videoID,
     CreatedAt |-> videoMetadata.CreatedAt,
     UpdatedAt |-> videoMetadata.UpdatedAt,
     ThumbnailURL |-> Ptr(thumbnailUrl),
     VideoURL |-> Nil,
     CreateVideoParams |-> videoMetadata.CreateVideoParams]

\* video := database.Video{...} of handlerUploadThumbnail
ThumbnailRecord(videoID, videoMetadata, thumbnailUrl) ==
    [ID |-> videoID,
     CreatedAt |-> videoMetadata.CreatedAt,
     UpdatedAt |-> videoMetadata.UpdatedAt,
     ThumbnailURL |-> Ptr(thumbnailUrl),
     VideoURL |-> videoMetadata.VideoURL,
     CreateVideoParams |-> videoMetadata.CreateVideoParams]

\* os.Create(filePath), io.Copy, thumbnailUrl and the record.
UploadThumbnail_Store(r, L, files, filename) ==
    \E createOK \in BOOLEAN, copyOK \in BOOLEAN :
        LET filePath == <<"assets/">> \o filename
            L1 == Log(L, "os.Create")
            L2 == Log(Defer(L1, "Close", filePath), "io.Copy")
            thumbnailUrl == <<"/assets/">> \o filename
        IN  IF ~createOK
            THEN Return(r, respondWithError(L1, "StatusInternalServerError"),
                        files, db)
            ELSE IF ~copyOK
            THEN Return(r, respondWithError(L2, "StatusInternalServerError"),
                        files \cup {filePath}, db)
            ELSE Continue(r,
                    [L2 EXCEPT !.url = thumbnailUrl,
                               !.video = ThumbnailRecord(L.videoID, L.videoMetadata,
                                                         thumbnailUrl),
                               !.pc = "update"],
                    files \cup {filePath}, db)

\* cfg.db.GetVideo(videoID) and the owner test.
UploadThumbnail_Authorize(r, L, files, filename) ==
    LET got == GetVideo(db, L.videoID)
        L1 == [L EXCEPT !.videoMetadata = got.video, !.fetched = ~got.err]
    IN  IF got.err
        THEN Return(r, respondWithError(L1, "StatusNotFound"), files, db)
        ELSE IF got.video.CreateVideoParams.UserID # L.userID
             THEN Return(r, respondWithError(L1, "StatusUnauthorized"), files, db)
             ELSE UploadThumbnail_Store(r, L1, files, filename)

\* r.ParseMultipartForm, r.FormFile("thumbnail"), getExtensionFromHeader.
UploadThumbnail_Ingest(r, L, files) ==
    \E parseOK \in BOOLEAN, formOK \in BOOLEAN :
        LET L1 == Log(L, "ParseMultipartForm")
            L2 == Log(L1, "FormFile")
        IN  IF ~parseOK
            THEN Return(r, respondWithError(L1, "StatusInternalServerError"),
                        files, db)
            ELSE IF ~formOK
            THEN Return(r, respondWithError(L2, "StatusInternalServerError"),
                        files, db)
            ELSE \E header \in ThumbnailHeaders :
                    LET L3 == Defer([L2 EXCEPT !.header = Ptr(header)], "Close", <<"file">>)
                        ext == getExtensionFromHeader(header)
                    IN  IF ext.err
                        THEN Return(r, respondWithError(L3, "StatusBadRequest"),
                                    files, db)
                        ELSE UploadThumbnail_Authorize(r,
                                [L3 EXCEPT !.mediaTypeOK = TRUE], files,
                                <<L.videoID, ".">> \o ext.extension)

\* uuid.Parse, auth.GetBearerToken, auth.ValidateJWT.
UploadThumbnail_Identify(r, L, files) ==
    \E videoIDString \in PathValues, bearer \in Tokens :
        LET videoID == uuidParse(videoIDString)
            token == GetBearerToken(bearer)
            userID == ValidateJWT(token.token)
        IN  IF videoID.err
            THEN Return(r, respondWithError(L, "StatusBadRequest"), files, db)
            ELSE IF token.err
            THEN Return(r, respondWithError(L, "StatusUnauthorized"), files, db)
            ELSE IF userID.err
            THEN Return(r, respondWithError(L, "StatusUnauthorized"), files, db)
            ELSE UploadThumbnail_Ingest(r,
                    [L EXCEPT !.videoID = videoID.id, !.userID = userID.userID],
                    files)

UploadThumbnailStart(r) ==
    /\ NextToArrive(r)
    /\ UploadThumbnail_Identify(r, [NewFrame EXCEPT !.kind = "thumbnail",
                                                    !.dbStart = db], fs)
    /\ UNCHANGED <<s3Bucket, s3, putFailed, probe, classified>>

\* cfg.db.UpdateVideo(video) and the response.
UploadThumbnailPersist(r) ==
    /\ req[r].kind = "thumbnail"
    /\ req[r].pc = "update"
    /\ \E updateOK \in BOOLEAN :
        LET L == Log(req[r], "UpdateVideo")
        IN  IF ~updateOK
            THEN Return(r, respondWithError(L, "StatusInternalServerError"), fs, db)
            ELSE Return(r, respondWithJSON([L EXCEPT !.wrote = TRUE], "StatusOK",
                                           L.video),
                        fs, UpdateVideo(db, L.video))
    /\ UNCHANGED <<s3Bucket, s3, putFailed, probe, classified>>

(***************************************************************************)
(* The specification of the handlers: NumReq requests, each of either      *)
(* kind, interleaved at the calls to the record store and the object store.*)
(***************************************************************************)
NoProbe == [out |-> "runerr", streams |-> <<>>]
Unclassified == [ran |-> FALSE, aspectRatio |-> <<>>, err |-> FALSE]

Init ==
    /\ s3Bucket \in Buckets
    /\ db = InitDB
    /\ s3 = {}
    /\ fs = {}
    /\ req = [r \in Reqs |-> NewFrame]
    /\ putFailed = {}
    /\ probe = NoProbe
    /\ classified = Unclassified

Next ==
    \/ \E r \in Reqs : UploadVideoStart(r)
    \/ \E r \in Reqs : UploadVideoPut(r)
    \/ \E r \in Reqs : UploadVideoPersist(r)
    \/ \E r \in Reqs : UploadThumbnailStart(r)
    \/ \E r \in Reqs : UploadThumbnailPersist(r)

Spec == Init /\ [][Next]_vars

(***************************************************************************)
(* The specification of the classifier alone: getVideoAspectRatio on every *)
(* probe output with an empty stream list or a first stream of             *)
(* 0..MaxWidth x 0..MaxHeight.                                             *)
(***************************************************************************)
InitClassify ==
    /\ s3Bucket = <<"tubely">>
    /\ db = InitDB
    /\ s3 = {}
    /\ fs = {}
    /\ req = [r \in Reqs |-> NewFrame]
    /\ putFailed = {}
    /\ probe \in {[out |-> "ok", streams |-> <<>>]}
                    \cup {[out |-> "ok", streams |-> << <<w, h>> >>] :
                            w \in 0..MaxWidth, h \in 0..MaxHeight}
    /\ classified = Unclassified

Classify ==
    /\ ~classified.ran
    /\ LET res == getVideoAspectRatio(probe)
       IN  classified' = [ran |-> TRUE, aspectRatio |-> res.aspectRatio,
                          err |-> res.err]
    /\ UNCHANGED <<s3Bucket, db, s3, fs, req, putFailed, probe>>

SpecClassify == InitClassify /\ [][Classify]_vars

(***************************************************************************)
(* The properties.                                                         *)
(***************************************************************************)
Done(r) == req[r].pc = "done"
IsVideo(r) == req[r].kind = "video"
IsThumbnail(r) == req[r].kind = "thumbnail"
Logged(r, event) == \E i \in 1..Len(req[r].log) : req[r].log[i] = event
Codes(r) == [i \in 1..Len(req[r].resp) |-> req[r].resp[i].code]
Succeeded(r) == Done(r) /\ Codes(r) = <<"StatusOK">>
\* The requests whose UpdateVideo replaced record v.
Writers(v) == {q \in Reqs : req[q].wrote /\ req[q].videoID = v}
NoComma(str) == \A i \in 1..Len(str) : str[i] # ","

\* C1: a failed PutObject is not followed by UpdateVideo for that request,
\* and no stored video locator names a key whose upload failed.
C1_NoLocatorForFailedUpload ==
    /\ \A r \in Reqs : req[r].putErr => ~Logged(r, "UpdateVideo")
    /\ \A v \in VideoIDs, k \in putFailed :
          db[v].VideoURL # Ptr(s3Bucket \o <<",">> \o k)

\* C2: a finished handlerUploadVideo request has written exactly one
\* response, the success payload or one error.
C2_ExactlyOneResponse ==
    \A r \in Reqs : (IsVideo(r) /\ Done(r)) =>
        /\ Len(req[r].resp) = 1
        /\ req[r].resp[1].code = "StatusOK" => req[r].resp[1].body # ZeroVideo

\* C3: when handlerUploadVideo has returned after creating the scratch
\* file, neither the scratch file nor its ".processing" sibling exists.
C3_NoScratchFilesLeft ==
    \A r \in Reqs : (IsVideo(r) /\ Done(r) /\ req[r].tempFile # <<>>) =>
        /\ req[r].tempFile \notin fs
        /\ req[r].tempFile \o <<".processing">> \notin fs

\* C4: a request of a user who is not the fetched record's owner ends with
\* the one response Forbidden, and no file I/O step ran before it.
C4_ForbiddenBeforeFileIO ==
    \A r \in Reqs :
        (Done(r) /\ req[r].fetched
            /\ req[r].videoMetadata.CreateVideoParams.UserID # req[r].userID) =>
        /\ Codes(r) = <<"StatusForbidden">>
        /\ \A e \in FileIO : ~Logged(r, e)

\* A video upload rejected for its content type: the one response is
\* BadRequest, no scratch file was created, neither the probe nor the remux
\* ran, and the request did not change the record store.
RejectedForContentType(r) ==
    /\ Done(r)
    /\ Codes(r) = <<"StatusBadRequest">>
    /\ req[r].tempFile = <<>>
    /\ \A e \in {"os.CreateTemp", "io.Copy", "ffprobe", "ffmpeg"} : ~Logged(r, e)
    /\ ~req[r].wrote
    /\ req[r].alone => req[r].dbEnd = req[r].dbStart

C6_StoredLocator ==
    \A v \in VideoIDs :
        \/ db[v].VideoURL = Nil
        \/ \E r \in Writers(v) :
            /\ IsVideo(r)
            /\ db[v].VideoURL = Ptr(s3Bucket \o <<",">> \o req[r].key)
            /\ \A ok \in BOOLEAN :
                  db[v].VideoURL #
                      Ptr(generatePresignedURL(s3Bucket, req[r].key, ok).url)
            /\ (NoComma(s3Bucket) /\ NoComma(req[r].key)) =>
                  Split(db[v].VideoURL[1], ",") = <<s3Bucket, req[r].key>>

C6_Witness ==
    \E v \in VideoIDs, r \in Reqs :
        /\ IsVideo(r) /\ Succeeded(r) /\ NoComma(s3Bucket)
        /\ db[v].VideoURL = Ptr(s3Bucket \o <<",">> \o req[r].key)
        /\ req[r].resp[1].body.VideoURL
              = Ptr(generatePresignedURL(s3Bucket, req[r].key, TRUE).url)

\* C7: every key an object is uploaded under or a locator is persisted with
\* is "<classification>/<random-id>.mp4" with classification landscape,
\* portrait or other.
WellFormedKey(r) ==
    \E c \in {"landscape", "portrait", "other"} :
        req[r].key = <<c, "/", randomIDString(r), ".mp4">>

C7_KeyForm ==
    \A r \in Reqs :
        (IsVideo(r) /\ (Logged(r, "PutObject") \/ req[r].wrote)) => WellFormedKey(r)

\* C8: a request that ran alone and succeeded changed only its own field of
\* its record (the thumbnail reference, or the video locator); a request
\* that ran alone and wrote an error response left the record store as it
\* was.
C8_FrameCondition ==
    \A r \in Reqs : (Done(r) /\ req[r].alone) =>
        IF Succeeded(r)
        THEN /\ IsThumbnail(r) =>
                  req[r].dbEnd = [req[r].dbStart EXCEPT
                      ![req[r].videoID].ThumbnailURL = Ptr(req[r].url)]
             /\ IsVideo(r) =>
                  req[r].dbEnd = [req[r].dbStart EXCEPT
                      ![req[r].videoID].VideoURL = Ptr(req[r].url)]
        ELSE req[r].dbEnd = req[r].dbStart

\* The classification the claimed rule gives a first stream of w x h, in
\* exact arithmetic: |w/h - 16/9| < 1/10, else |w/h - 9/16| < 1/10.
Abs(n) == IF n < 0 THEN 0 - n ELSE n
ExactClassification(w, h) ==
    IF h > 0 /\ 10 * Abs(9 * w - 16 * h) < 9 * h THEN <<"landscape">>
    ELSE IF h > 0 /\ 10 * Abs(16 * w - 9 * h) < 16 * h THEN <<"portrait">>
    ELSE <<"other">>

\* C9: getVideoAspectRatio returns landscape when |w/h - 16/9| < 0.1, else
\* portrait when |w/h - 9/16| < 0.1, else other, both bounds exclusive, and
\* the empty classification without error for an empty stream list.
C9_ExclusiveBands ==
    classified.ran =>
        /\ ~classified.err
        /\ classified.aspectRatio =
              IF probe.streams = <<>> THEN <<>>
              ELSE ExactClassification(probe.streams[1][1], probe.streams[1][2])

\* A thumbnail request r and a video request s on the same record that both
\* succeeded, no other request having written the record or being about to.
BothUploaded(r, s) ==
    /\ IsThumbnail(r) /\ Succeeded(r)
    /\ IsVideo(s) /\ Succeeded(s)
    /\ req[r].videoID = req[s].videoID
    /\ Writers(req[r].videoID) = {r, s}
    /\ \A q \in Reqs : ~InFlight(q)

\* C10 as claimed: the record finally stored holds both the new thumbnail
\* reference and the new video locator, whatever the interleaving.
C10_BothFieldsKept ==
    \A r, s \in Reqs : BothUploaded(r, s) =>
        /\ db[req[r].videoID].ThumbnailURL = Ptr(req[r].url)
        /\ db[req[r].videoID].VideoURL = Ptr(req[s].url)

\* C10 as amended: the record finally stored is the full record written by
\* the request whose UpdateVideo ran last; it holds the other request's new
\* field only if that field was already in the copy the last writer read
\* with GetVideo, and the stale value of that copy otherwise.
C10_LastWriterWins ==
    \A r, s \in Reqs : BothUploaded(r, s) =>
        LET stored == db[req[r].videoID]
        IN  \/ /\ stored = req[s].video
               /\ stored.VideoURL = Ptr(req[s].url)
               /\ stored.ThumbnailURL = req[s].videoMetadata.ThumbnailURL
            \/ /\ stored = req[r].video
               /\ stored.ThumbnailURL = Ptr(req[r].url)
               /\ stored.VideoURL = req[r].videoMetadata.VideoURL

C10_Witness ==
    \E r, s \in Reqs :
        /\ BothUploaded(r, s)
        /\ ~req[r].alone /\ ~req[s].alone
        /\ db[req[r].videoID].ThumbnailURL = Nil
        /\ db[req[r].videoID].VideoURL = Ptr(req[s].url)

====
